---- MODULE Spec2Model ----
(***************************************************************************)
(* Rule engine (src/core/rule_system.py): attribute catalog, tokenizer,    *)
(* recursive-descent parser, decision-tree compiler and RuleEngine.        *)
(*                                                                         *)
(* Rule text is a sequence of one-character strings; a token is such a     *)
(* sequence too.  Attribute names are tokens, rule names are plain strings.*)
(* Positions are 0-based as in the source; tokens[pos] of the source is    *)
(* Tok(tokens, pos) here.                                                  *)
(*                                                                         *)
(* The HTTP handlers (src/api) act on the catalog and the engine and on    *)
(* the two tables of the store (src/database/models.py); startup           *)
(* (src/main.py) replays the tables into a fresh catalog and engine.       *)
(***************************************************************************)
EXTENDS Integers, Sequences, FiniteSets, TLC

VARIABLES
    catalog,    \* AttributeCatalog.attributes : name -> AttributeDefinition
    rules,      \* RuleEngine.rules            : name -> Rule
    last,       \* the last call made and what it returned or raised
    db_attributes,  \* table `attributes`: name -> row
    db_rules,       \* table `rules`: name -> rule_str
    requests        \* the handlers in flight, each with its position

vars == <<catalog, rules, last, db_attributes, db_rules, requests>>

\* What the catalog's and the engine's own methods leave alone
outside == <<db_attributes, db_rules, requests>>

(***************************************************************************)
(* Characters and strings                                                  *)
(***************************************************************************)

\* The characters of the model's texts, in code-point order.
Alphabet ==
    << " ", "'", "(", ")", "+", "-", "0", "1", "2", "3", "4", "5", "6", "7",
       "8", "9", "<", "=", ">", "A", "C", "D", "N", "O", "R", "S", "T", "U",
       "a", "b", "c", "d", "e", "f", "g", "l", "n", "o", "r", "s", "t", "u",
       "x", "y" >>

Ord(c) == CHOOSE i \in 1..Len(Alphabet) : Alphabet[i] = c

Digits == <<"0", "1", "2", "3", "4", "5", "6", "7", "8", "9">>

IsDigit(c) == \E i \in 1..Len(Digits) : Digits[i] = c

DigitVal(c) == (CHOOSE i \in 1..Len(Digits) : Digits[i] = c) - 1

\* str.lower() on one character
LowerChar(c) ==
    CASE c = "A" -> "a" [] c = "C" -> "c" [] c = "D" -> "d" [] c = "N" -> "n"
      [] c = "O" -> "o" [] c = "R" -> "r" [] c = "S" -> "s" [] c = "T" -> "t"
      [] c = "U" -> "u" [] OTHER -> c

Lower(s) == [i \in 1..Len(s) |-> LowerChar(s[i])]

\* str.strip(): leading and trailing characters of `set` removed
RECURSIVE LStrip(_, _)
LStrip(s, set) ==
    IF s # <<>> /\ Head(s) \in set THEN LStrip(Tail(s), set) ELSE s

RECURSIVE RStrip(_, _)
RStrip(s, set) ==
    IF s # <<>> /\ s[Len(s)] \in set
    THEN RStrip(SubSeq(s, 1, Len(s) - 1), set)
    ELSE s

Strip(s, set) == RStrip(LStrip(s, set), set)

\* Python's ordering of two strings (lexicographic by code point)
RECURSIVE StrLess(_, _)
StrLess(s, t) ==
    IF t = <<>> THEN FALSE
    ELSE IF s = <<>> THEN TRUE
    ELSE IF Head(s) = Head(t) THEN StrLess(Tail(s), Tail(t))
    ELSE Ord(Head(s)) < Ord(Head(t))

(***************************************************************************)
(* Exceptions                                                              *)
(***************************************************************************)

NoToken == <<>>

\* ParseError(message, position, token)
ParseError(message, position, token) ==
    [exc |-> "ParseError", message |-> message, position |-> position,
     token |-> token, rule |-> ""]

\* An exception other than ParseError; `token` is the attribute it names and
\* `rule` the rule it names (empty when it names none).
Raised(exc, message, token, rule) ==
    [exc |-> exc, message |-> message, position |-> -1,
     token |-> token, rule |-> rule]

(***************************************************************************)
(* Tokenizer                                                               *)
(***************************************************************************)

kAND == <<"A", "N", "D">>
kOR  == <<"O", "R">>
kNOT == <<"N", "O", "T">>
LPAREN == <<"(">>
RPAREN == <<")">>

VALID_OPERATORS == { <<"=">>, <<"<">>, <<">">>, <<"<", "=">>, <<">", "=">> }

VALID_LOGICAL_OPERATORS == { kAND, kOR, kNOT }

\* tokens[pos] with the source's 0-based index
Tok(tokens, pos) == tokens[pos + 1]

\* ParenScan with the count compared to zero only after the loop
RECURSIVE ParenScan_checked_late(_, _, _)
ParenScan_checked_late(tokens, pos, paren_count) ==
    IF pos >= Len(tokens)
    THEN [ok |-> TRUE, paren_count |-> paren_count]
    ELSE LET token == Tok(tokens, pos)
         IN  ParenScan_checked_late(tokens, pos + 1,
                IF token = LPAREN THEN paren_count + 1
                ELSE IF token = RPAREN THEN paren_count - 1
                ELSE paren_count)

\* validate_tokens' loop from position pos with the running paren_count:
\* the exception it raises, or the count at the end of the tokens
RECURSIVE ParenScan(_, _, _)
ParenScan(tokens, pos, paren_count) ==
    IF pos >= Len(tokens)
    THEN [ok |-> TRUE, paren_count |-> paren_count]
    ELSE LET token == Tok(tokens, pos)
             count == IF token = LPAREN THEN paren_count + 1
                      ELSE IF token = RPAREN THEN paren_count - 1
                      ELSE paren_count
         IN  IF count < 0
             THEN [ok |-> FALSE,
                   err |-> ParseError("Unmatched closing parenthesis", pos, token)]
             ELSE ParenScan(tokens, pos + 1, count)

validate_tokens(tokens) ==
    IF tokens = <<>>
    THEN [ok |-> FALSE, err |-> ParseError("Empty rule string", 0, NoToken)]
    ELSE LET scan == ParenScan(tokens, 0, 0)
         IN  IF ~scan.ok THEN scan
             ELSE IF scan.paren_count > 0
             THEN [ok |-> FALSE,
                   err |-> ParseError("Unmatched opening parenthesis",
                                      Len(tokens) - 1, NoToken)]
             ELSE [ok |-> TRUE]

\* re.sub(r'([()])', r' \1 ', rule)
RECURSIVE SubParens(_)
SubParens(s) ==
    IF s = <<>> THEN <<>>
    ELSE IF Head(s) \in {"(", ")"}
    THEN <<" ", Head(s), " ">> \o SubParens(Tail(s))
    ELSE <<Head(s)>> \o SubParens(Tail(s))

\* re.sub(r'(<=|>=|=|<|>)', r' \1 ', rule): leftmost match, alternatives in order
RECURSIVE SubOperators(_)
SubOperators(s) ==
    IF s = <<>> THEN <<>>
    ELSE IF Len(s) >= 2 /\ Head(s) \in {"<", ">"} /\ s[2] = "="
    THEN <<" ", s[1], s[2], " ">> \o SubOperators(Tail(Tail(s)))
    ELSE IF Head(s) \in {"=", "<", ">"}
    THEN <<" ", Head(s), " ">> \o SubOperators(Tail(s))
    ELSE <<Head(s)>> \o SubOperators(Tail(s))

\* rule.split(): the maximal runs of non-blank characters; `word` is the run
\* being read
RECURSIVE SplitFrom(_, _)
SplitFrom(s, word) ==
    IF s = <<>> THEN (IF word = <<>> THEN <<>> ELSE <<word>>)
    ELSE IF Head(s) = " "
    THEN (IF word = <<>> THEN <<>> ELSE <<word>>) \o SplitFrom(Tail(s), <<>>)
    ELSE SplitFrom(Tail(s), Append(word, Head(s)))

Split(s) == SplitFrom(s, <<>>)

tokenize_rule(rule) ==
    IF Strip(rule, {" "}) = <<>>
    THEN [ok |-> FALSE, err |-> ParseError("Empty rule string", 0, NoToken)]
    ELSE LET tokens == Split(SubOperators(SubParens(rule)))
             valid  == validate_tokens(tokens)
         IN  IF valid.ok THEN [ok |-> TRUE, tokens |-> tokens] ELSE valid

(***************************************************************************)
(* Literals and AST nodes                                                  *)
(***************************************************************************)

\* A Python value: bool, int or str (no literal of the model's texts is
\* accepted by float()).
BoolVal(b) == [t |-> "bool", b |-> b, i |-> 0, s |-> <<>>]
IntVal(i)  == [t |-> "int", b |-> FALSE, i |-> i, s |-> <<>>]
StrVal(s)  == [t |-> "str", b |-> FALSE, i |-> 0, s |-> s]

\* class condition
condition(attribute, operator, value, invertion) ==
    [kind |-> "condition", attribute |-> attribute, operator |-> operator,
     value |-> value, invertion |-> invertion]

\* class operation: children is a set (operation.add is set.add).  Python's
\* set holds the child objects by identity; here children that are equal as
\* values are one element, which all()/any() over the children cannot tell.
operation(operator, children, invertion) ==
    [kind |-> "operation", operator |-> operator, children |-> children,
     invertion |-> invertion]

None == [kind |-> "None"]

(***************************************************************************)
(* Parser                                                                  *)
(***************************************************************************)

\* int(value) succeeds: an optional sign and one or more digits
IsIntLiteral(s) ==
    LET body == IF s # <<>> /\ Head(s) \in {"+", "-"} THEN Tail(s) ELSE s
    IN  body # <<>> /\ \A k \in 1..Len(body) : IsDigit(body[k])

RECURSIVE DigitsValue(_, _)
DigitsValue(s, acc) ==
    IF s = <<>> THEN acc
    ELSE DigitsValue(Tail(s), 10 * acc + DigitVal(Head(s)))

IntOf(s) ==
    IF Head(s) = "-" THEN 0 - DigitsValue(Tail(s), 0)
    ELSE IF Head(s) = "+" THEN DigitsValue(Tail(s), 0)
    ELSE DigitsValue(s, 0)

\* parse_condition's conversion of the value token (lines 250-267)
ParseValue(token) ==
    LET value == Strip(token, {"'"})
    IN  IF Lower(value) = <<"t", "r", "u", "e">> THEN BoolVal(TRUE)
        ELSE IF Lower(value) = <<"f", "a", "l", "s", "e">> THEN BoolVal(FALSE)
        ELSE IF IsIntLiteral(value) THEN IntVal(IntOf(value))
        ELSE StrVal(value)

parse_condition(tokens, pos0) ==
    IF pos0 >= Len(tokens)
    THEN [ok |-> FALSE,
          err |-> ParseError("Unexpected end of rule while parsing condition",
                             pos0, NoToken)]
    ELSE
    LET invertion == Tok(tokens, pos0) = kNOT
        pos1      == IF invertion THEN pos0 + 1 ELSE pos0
    IN
    IF pos1 >= Len(tokens)
    THEN [ok |-> FALSE,
          err |-> ParseError("Unexpected end of rule after NOT operator",
                             pos1, NoToken)]
    ELSE
    LET attribute == Tok(tokens, pos1)
        pos2      == pos1 + 1
    IN
    IF attribute \in VALID_OPERATORS \/ attribute \in VALID_LOGICAL_OPERATORS
    THEN [ok |-> FALSE,
          err |-> ParseError("Invalid attribute name", pos1, attribute)]
    ELSE IF pos2 >= Len(tokens)
    THEN [ok |-> FALSE,
          err |-> ParseError("Missing operator after attribute", pos2, NoToken)]
    ELSE
    LET operator == Tok(tokens, pos2)
        pos3     == pos2 + 1
    IN
    IF operator \notin VALID_OPERATORS
    THEN [ok |-> FALSE,
          err |-> ParseError("Invalid comparison operator", pos2, operator)]
    ELSE IF pos3 >= Len(tokens)
    THEN [ok |-> FALSE,
          err |-> ParseError("Missing value after operator", pos3, NoToken)]
    ELSE [ok |-> TRUE,
          node |-> condition(attribute, operator,
                             ParseValue(Tok(tokens, pos3)), invertion),
          pos |-> pos3 + 1]

\* current_operation.add(child)
Add(op, child) == [op EXCEPT !.children = @ \cup {child}]

RECURSIVE parse_expression(_, _)
RECURSIVE ParseLoop(_, _, _)

\* One iteration of parse_expression's while loop (lines 280-326) at pos, with
\* current_operation, and the iterations after it.
ParseLoop(tokens, pos, current_operation) ==
    IF pos >= Len(tokens)
    THEN [ok |-> FALSE, err |-> ParseError("Unexpected end of rule", pos, NoToken)]
    ELSE
    LET token == Tok(tokens, pos)
        \* lines 325-326, then the next iteration
        Continue(new_pos, op) ==
            IF new_pos >= Len(tokens) /\ op # None
            THEN [ok |-> TRUE, node |-> op, pos |-> new_pos]
            ELSE ParseLoop(tokens, new_pos, op)
    IN
    IF token = LPAREN THEN
        LET sub == parse_expression(tokens, pos + 1)
        IN  IF ~sub.ok THEN sub
            ELSE IF sub.pos >= Len(tokens) \/ Tok(tokens, sub.pos) # RPAREN
            THEN [ok |-> FALSE,
                  err |-> ParseError("Missing closing parenthesis", sub.pos, NoToken)]
            ELSE IF current_operation # None
            THEN Continue(sub.pos + 1, Add(current_operation, sub.node))
            ELSE [ok |-> TRUE, node |-> sub.node, pos |-> sub.pos + 1]
    ELSE IF token = RPAREN THEN
        IF current_operation = None
        THEN [ok |-> FALSE,
              err |-> ParseError("Unexpected closing parenthesis", pos, NoToken)]
        ELSE [ok |-> TRUE, node |-> current_operation, pos |-> pos]
    ELSE IF token \in {kAND, kOR} THEN
        IF current_operation = None
        THEN Continue(pos + 1, operation(Lower(token), {}, FALSE))
        ELSE IF current_operation.operator # Lower(token)
        THEN Continue(pos + 1, operation(Lower(token), {current_operation}, FALSE))
        ELSE Continue(pos + 1, current_operation)
    ELSE
        \* the NOT branch and the last branch are the same code
        LET cond == parse_condition(tokens, pos)
        IN  IF ~cond.ok THEN cond
            ELSE IF current_operation # None
            THEN Continue(cond.pos, Add(current_operation, cond.node))
            ELSE [ok |-> TRUE, node |-> cond.node, pos |-> cond.pos]

parse_expression(tokens, start) ==
    IF start >= Len(tokens)
    THEN [ok |-> FALSE, err |-> ParseError("Unexpected end of rule", start, NoToken)]
    ELSE ParseLoop(tokens, start, None)

parse_rule(rule_str) ==
    LET tok == tokenize_rule(rule_str)
    IN  IF ~tok.ok THEN tok
        ELSE LET parsed == parse_expression(tok.tokens, 0)
             IN  IF ~parsed.ok THEN parsed
                 ELSE IF parsed.pos < Len(tok.tokens)
                 THEN [ok |-> FALSE,
                       err |-> ParseError("Unexpected tokens after valid expression",
                                          parsed.pos, Tok(tok.tokens, parsed.pos))]
                 ELSE [ok |-> TRUE, ast |-> parsed.node]

(***************************************************************************)
(* Python comparisons                                                      *)
(***************************************************************************)

\* bool is a subclass of int: True is 1 and False is 0 in == and <
IsNumber(v) == v.t \in {"bool", "int"}

Num(v) == IF v.t = "bool" THEN (IF v.b THEN 1 ELSE 0) ELSE v.i

\* x == y (never raises)
PyEq(x, y) ==
    IF IsNumber(x) /\ IsNumber(y) THEN Num(x) = Num(y)
    ELSE IF x.t = "str" /\ y.t = "str" THEN x.s = y.s
    ELSE FALSE

\* x < y is defined between two numbers and between two strings
Orderable(x, y) ==
    \/ IsNumber(x) /\ IsNumber(y)
    \/ x.t = "str" /\ y.t = "str"

PyLess(x, y) ==
    IF IsNumber(x) THEN Num(x) < Num(y) ELSE StrLess(x.s, y.s)

\* The comparison shared by condition.eval (lines 101-110) and decision.eval
\* (lines 148-158): candidate[attribute] `operator` value
Compare(operator, x, value) ==
    IF operator = <<"=">> THEN
        IF value.t = "str"
        THEN IF x.t = "str"
             THEN [ok |-> TRUE, val |-> Lower(x.s) = Lower(value.s)]
             ELSE [ok |-> FALSE,
                   err |-> Raised("AttributeError", "object has no attribute 'lower'",
                                  NoToken, "")]
        ELSE [ok |-> TRUE, val |-> PyEq(x, value)]
    ELSE IF ~Orderable(x, value)
    THEN [ok |-> FALSE,
          err |-> Raised("TypeError", "not supported between instances",
                         NoToken, "")]
    ELSE IF operator = <<"<">> THEN [ok |-> TRUE, val |-> PyLess(x, value)]
    ELSE IF operator = <<">">> THEN [ok |-> TRUE, val |-> PyLess(value, x)]
    ELSE IF operator = <<"<", "=">> THEN [ok |-> TRUE, val |-> ~PyLess(value, x)]
    ELSE [ok |-> TRUE, val |-> ~PyLess(x, value)]

MissingAttribute(attribute) ==
    Raised("ValueError", "Missing attribute", attribute, "")

(***************************************************************************)
(* AST evaluation.  A candidate is a function from attribute names to      *)
(* values.  An evaluation returns [ok |-> TRUE, val] or [ok |-> FALSE,     *)
(* errs]: errs holds every exception the call can raise, one per order in  *)
(* which the children set can be iterated.                                 *)
(***************************************************************************)

condition_eval(node, candidate) ==
    IF node.attribute \notin DOMAIN candidate
    THEN [ok |-> FALSE, errs |-> {MissingAttribute(node.attribute)}]
    ELSE LET r == Compare(node.operator, candidate[node.attribute], node.value)
         IN  IF ~r.ok THEN [ok |-> FALSE, errs |-> {r.err}]
             ELSE [ok |-> TRUE,
                   val |-> IF node.invertion THEN ~r.val ELSE r.val]

RECURSIVE ast_eval(_, _)

operation_eval(node, candidate) ==
    IF node.children = {} THEN [ok |-> TRUE, val |-> TRUE]
    ELSE LET results == [child \in node.children |-> ast_eval(child, candidate)]
             raising == {child \in node.children : ~results[child].ok}
             result  == IF node.operator = <<"a", "n", "d">>
                        THEN \A child \in node.children : results[child].val
                        ELSE \E child \in node.children : results[child].val
         IN  IF raising # {}
             THEN [ok |-> FALSE,
                   errs |-> UNION {results[child].errs : child \in raising}]
             ELSE [ok |-> TRUE,
                   val |-> IF node.invertion THEN ~result ELSE result]

\* node.eval(candidate) for an AST node
ast_eval(node, candidate) ==
    IF node.kind = "condition" THEN condition_eval(node, candidate)
    ELSE operation_eval(node, candidate)

(***************************************************************************)
(* Decision trees                                                          *)
(***************************************************************************)

decision(attribute, operator, value, true_tree, false_tree) ==
    [kind |-> "decision", attribute |-> attribute, operator |-> operator,
     value |-> value, true_tree |-> true_tree, false_tree |-> false_tree]

result_node(value) == [kind |-> "result_node", value |-> value]

\* decision.eval: the subtree the candidate descends to
decision_eval(node, candidate) ==
    IF node.attribute \notin DOMAIN candidate
    THEN [ok |-> FALSE, err |-> MissingAttribute(node.attribute)]
    ELSE LET r == Compare(node.operator, candidate[node.attribute], node.value)
         IN  IF ~r.ok THEN r
             ELSE [ok |-> TRUE,
                   next |-> IF r.val THEN node.true_tree ELSE node.false_tree]

\* The loop of RuleEngine.evaluate (lines 463-466)
RECURSIVE WalkTree(_, _)
WalkTree(current_node, candidate) ==
    IF current_node.kind = "result_node"
    THEN [ok |-> TRUE, val |-> current_node.value]
    ELSE LET step == decision_eval(current_node, candidate)
         IN  IF ~step.ok THEN step ELSE WalkTree(step.next, candidate)

\* The set of (attribute, operator, value) tuples.  Python's set takes 1 and
\* True for one value; no text of the model compares one attribute to both.
RECURSIVE find_conditions(_)
find_conditions(node) ==
    IF node.kind = "condition"
    THEN {<<node.attribute, node.operator, node.value>>}
    ELSE UNION {find_conditions(child) : child \in node.children}

\* val - 1 if isinstance(val, (int, float)) else val
FalseValue(val) == IF IsNumber(val) THEN IntVal(Num(val) - 1) ELSE val

\* A bool handed to create_decision_tree in place of an AST node
BoolNode(b) == [kind |-> "bool", b |-> b]

Single(attr, val) == [x \in {attr} |-> val]

EmptyCandidate == [x \in {} |-> IntVal(0)]

NoEvalOnBool ==
    Raised("AttributeError", "'bool' object has no attribute 'eval'", NoToken, "")

\* create_decision_tree(node, remaining_conditions): the set of its possible
\* outcomes, [ok |-> TRUE, tree] or [ok |-> FALSE, err], one per element that
\* remaining_conditions.pop() can return.
RECURSIVE create_decision_tree(_, _)
create_decision_tree(node, remaining_conditions) ==
    IF remaining_conditions = {} THEN
        IF node.kind = "bool" THEN {[ok |-> TRUE, tree |-> result_node(node.b)]}
        ELSE LET r == ast_eval(node, EmptyCandidate)
             IN  IF r.ok THEN {[ok |-> TRUE, tree |-> result_node(r.val)]}
                 ELSE {[ok |-> FALSE, err |-> e] : e \in r.errs}
    ELSE UNION {
        LET attr == popped[1]
            op   == popped[2]
            val  == popped[3]
            new_conditions == remaining_conditions \ {popped}
        IN  IF node.kind = "bool" THEN {[ok |-> FALSE, err |-> NoEvalOnBool]}
            ELSE
            LET true_result  == ast_eval(node, Single(attr, val))
                false_result == ast_eval(node, Single(attr, FalseValue(val)))
            IN  IF ~true_result.ok
                THEN {[ok |-> FALSE, err |-> e] : e \in true_result.errs}
                ELSE IF ~false_result.ok
                THEN {[ok |-> FALSE, err |-> e] : e \in false_result.errs}
                ELSE
                LET trues  == create_decision_tree(BoolNode(true_result.val),
                                                   new_conditions)
                    falses == create_decision_tree(BoolNode(false_result.val),
                                                   new_conditions)
                IN  {t \in trues : ~t.ok}
                    \cup {f \in falses : ~f.ok /\ \E t \in trues : t.ok}
                    \cup {[ok |-> TRUE,
                           tree |-> decision(attr, op, val, t.tree, f.tree)] :
                            t \in {x \in trues : x.ok},
                            f \in {x \in falses : x.ok}}
        : popped \in remaining_conditions }

transform_to_decision_tree(ast) ==
    create_decision_tree(ast, find_conditions(ast))

(***************************************************************************)
(* AttributeCatalog                                                        *)
(***************************************************************************)

\* Optional[int]: None, or a number
NoneNum == [some |-> FALSE, v |-> 0]
Some(v) == [some |-> TRUE, v |-> v]

\* @dataclass AttributeDefinition; allowed_values None and set() are both {}
\* here (the source only tests `not definition.allowed_values`)
AttributeDefinition(name, attr_type, min_value, max_value, allowed_values) ==
    [name |-> name, attr_type |-> attr_type, min_value |-> min_value,
     max_value |-> max_value, allowed_values |-> allowed_values]

\* dict[key] = value and dict.pop(key)
Put(map, key, value) ==
    [k \in DOMAIN map \cup {key} |-> IF k = key THEN value ELSE map[k]]

Remove(map, key) == [k \in DOMAIN map \ {key} |-> map[k]]

EmptyMap == [k \in {} |-> 0]

NoError == Raised("", "", NoToken, "")

\* add_attribute without its check of boolean definitions
add_attribute_boolean_unchecked(attributes, definition) ==
    IF definition.name \in DOMAIN attributes
    THEN [ok |-> FALSE, attributes |-> attributes,
          err |-> Raised("ValueError", "Attribute already exists",
                         definition.name, "")]
    ELSE IF /\ definition.attr_type \in {"integer", "float"}
            /\ definition.min_value.some /\ definition.max_value.some
            /\ definition.min_value.v > definition.max_value.v
    THEN [ok |-> FALSE, attributes |-> attributes,
          err |-> Raised("ValueError", "Min value cannot be greater than max value",
                         NoToken, "")]
    ELSE IF definition.attr_type = "string" /\ definition.allowed_values = {}
    THEN [ok |-> FALSE, attributes |-> attributes,
          err |-> Raised("ValueError", "String attributes must have allowed values",
                         NoToken, "")]
    ELSE [ok |-> TRUE, err |-> NoError,
          attributes |-> Put(attributes, definition.name, definition)]

\* AttributeCatalog.add_attribute on the catalog `attributes`: the exception
\* raised, and the attributes afterwards
add_attribute(attributes, definition) ==
    IF definition.name \in DOMAIN attributes
    THEN [ok |-> FALSE, attributes |-> attributes,
          err |-> Raised("ValueError", "Attribute already exists",
                         definition.name, "")]
    ELSE IF /\ definition.attr_type \in {"integer", "float"}
            /\ definition.min_value.some /\ definition.max_value.some
            /\ definition.min_value.v > definition.max_value.v
    THEN [ok |-> FALSE, attributes |-> attributes,
          err |-> Raised("ValueError", "Min value cannot be greater than max value",
                         NoToken, "")]
    ELSE IF definition.attr_type = "string" /\ definition.allowed_values = {}
    THEN [ok |-> FALSE, attributes |-> attributes,
          err |-> Raised("ValueError", "String attributes must have allowed values",
                         NoToken, "")]
    ELSE IF /\ definition.attr_type = "boolean"
            /\ (definition.min_value.some \/ definition.max_value.some)
    THEN [ok |-> FALSE, attributes |-> attributes,
          err |-> Raised("ValueError", "Boolean attributes cannot have min/max values",
                         NoToken, "")]
    ELSE [ok |-> TRUE, err |-> NoError,
          attributes |-> Put(attributes, definition.name, definition)]

\* AttributeCatalog.validate_value for an attr_name of the catalog
validate_value(attributes, attr_name, value) ==
    LET attr == attributes[attr_name]
        InRange == /\ ~(attr.min_value.some /\ Num(value) < attr.min_value.v)
                   /\ ~(attr.max_value.some /\ Num(value) > attr.max_value.v)
    IN  CASE attr.attr_type \in {"integer", "float"} ->
                \* isinstance(value, int) holds of a bool too
                IsNumber(value) /\ InRange
          [] attr.attr_type = "boolean" -> value.t = "bool"
          [] attr.attr_type = "string" ->
                value.t = "str" /\ value.s \in attr.allowed_values
          [] OTHER -> TRUE

(***************************************************************************)
(* RuleEngine.  Each method is the set of its possible outcomes on the     *)
(* rule map `rs` and the catalog `attributes`: what it returns or raises   *)
(* and the rule map it leaves.                                             *)
(***************************************************************************)

Rule(name, rule_str, ast, decision_tree) ==
    [name |-> name, rule_str |-> rule_str, ast |-> ast,
     decision_tree |-> decision_tree]

RECURSIVE ConditionAttributes(_)
ConditionAttributes(node) ==
    IF node.kind = "condition" THEN {node.attribute}
    ELSE UNION {ConditionAttributes(child) : child \in node.children}

\* validate_attributes (lines 400-408): the attributes it can raise on; the
\* first unknown one met, in the iteration order of the children sets
UnknownAttributes(attributes, ast) ==
    {a \in ConditionAttributes(ast) : a \notin DOMAIN attributes}

Fails(rs, err) == [ok |-> FALSE, err |-> err, rules |-> rs]

\* create_rule with the rule stored before its decision tree is built
create_rule_stored_early(rs, attributes, name, rule_str) ==
    IF name \in DOMAIN rs
    THEN {Fails(rs, Raised("ValueError", "Rule already exists", NoToken, name))}
    ELSE
    LET parsed == parse_rule(rule_str)
    IN  IF ~parsed.ok THEN {Fails(rs, parsed.err)}
        ELSE IF UnknownAttributes(attributes, parsed.ast) # {}
        THEN {Fails(rs, Raised("ValueError", "Unknown attribute in rule", a, "")) :
                a \in UnknownAttributes(attributes, parsed.ast)}
        ELSE {IF t.ok
              THEN [ok |-> TRUE, err |-> NoError,
                    rules |-> Put(rs, name,
                                  Rule(name, rule_str, parsed.ast, t.tree))]
              ELSE Fails(Put(rs, name, Rule(name, rule_str, parsed.ast, None)),
                         t.err) :
                t \in transform_to_decision_tree(parsed.ast)}

create_rule(rs, attributes, name, rule_str) ==
    IF name \in DOMAIN rs
    THEN {Fails(rs, Raised("ValueError", "Rule already exists", NoToken, name))}
    ELSE
    LET parsed == parse_rule(rule_str)
    IN  IF ~parsed.ok THEN {Fails(rs, parsed.err)}
        ELSE IF UnknownAttributes(attributes, parsed.ast) # {}
        THEN {Fails(rs, Raised("ValueError", "Unknown attribute in rule", a, "")) :
                a \in UnknownAttributes(attributes, parsed.ast)}
        ELSE {IF t.ok
              THEN [ok |-> TRUE, err |-> NoError,
                    rules |-> Put(rs, name,
                                  Rule(name, rule_str, parsed.ast, t.tree))]
              ELSE Fails(rs, t.err) :
                t \in transform_to_decision_tree(parsed.ast)}

\* modify_rule with the old rule put back when create_rule raises
modify_rule_restoring(rs, attributes, name, new_rule_str) ==
    IF name \notin DOMAIN rs
    THEN {Fails(rs, Raised("ValueError", "Rule does not exist", NoToken, name))}
    ELSE {IF out.ok THEN out ELSE Fails(rs, out.err) :
            out \in create_rule(Remove(rs, name), attributes, name, new_rule_str)}

modify_rule(rs, attributes, name, new_rule_str) ==
    IF name \notin DOMAIN rs
    THEN {Fails(rs, Raised("ValueError", "Rule does not exist", NoToken, name))}
    ELSE create_rule(Remove(rs, name), attributes, name, new_rule_str)

\* " sep ".join(parts)
RECURSIVE Join(_, _)
Join(parts, sep) ==
    IF parts = <<>> THEN <<>>
    ELSE IF Len(parts) = 1 THEN parts[1]
    ELSE parts[1] \o sep \o Join(Tail(parts), sep)

combine_rules(rs, attributes, name, rule_names, operator) ==
    IF Lower(operator) \notin { <<"a", "n", "d">>, <<"o", "r">> }
    THEN {Fails(rs, Raised("ValueError", "Operator must be 'and' or 'or'",
                           NoToken, ""))}
    ELSE IF name \in DOMAIN rs
    THEN {Fails(rs, Raised("ValueError", "Rule already exists", NoToken, name))}
    ELSE IF \E i \in 1..Len(rule_names) : rule_names[i] \notin DOMAIN rs
    THEN LET i == CHOOSE i \in 1..Len(rule_names) :
                    /\ rule_names[i] \notin DOMAIN rs
                    /\ \A j \in 1..(i - 1) : rule_names[j] \in DOMAIN rs
         IN  {Fails(rs, Raised("ValueError", "Rule does not exist",
                               NoToken, rule_names[i]))}
    ELSE
    LET combined_operation ==
            operation(Lower(operator),
                      {rs[rule_names[i]].ast : i \in 1..Len(rule_names)}, FALSE)
        rule_str ==
            Join([i \in 1..Len(rule_names) |->
                    <<"(">> \o rs[rule_names[i]].rule_str \o <<")">>],
                 <<" ">> \o operator \o <<" ">>)
    IN  {IF t.ok
         THEN [ok |-> TRUE, err |-> NoError,
               rules |-> Put(rs, name,
                             Rule(name, rule_str, combined_operation, t.tree))]
         ELSE Fails(rs, t.err) :
            t \in transform_to_decision_tree(combined_operation)}

\* RuleEngine.evaluate: [ok |-> TRUE, val] or [ok |-> FALSE, err]
evaluate(rs, attributes, rule_name, candidate) ==
    IF rule_name \notin DOMAIN rs
    THEN {[ok |-> FALSE,
           err |-> Raised("ValueError", "Rule does not exist", NoToken, rule_name)]}
    ELSE
    LET invalid == {a \in DOMAIN candidate :
                        /\ a \in DOMAIN attributes
                        /\ ~validate_value(attributes, a, candidate[a])}
    IN  IF invalid # {}
        THEN {[ok |-> FALSE,
               err |-> Raised("ValueError", "Invalid value for attribute", a, "")] :
                a \in invalid}
        ELSE {WalkTree(rs[rule_name].decision_tree, candidate)}

(***************************************************************************)
(* HTTP handlers (src/api).  A handler acts on the application state       *)
(*     app = [attributes, rules, db_attributes, db_rules]                  *)
(* (the catalog, the engine's rules, the two tables) and yields the set of *)
(* its possible responses [status, err, app]: the HTTP status, the         *)
(* exception behind a failure, and the state it leaves.  An exception no   *)
(* handler catches is status 500.  Commits do not fail.                    *)
(***************************************************************************)

Response(status, err, app) == [status |-> status, err |-> err, app |-> app]

HTTPException(status, detail, app) ==
    Response(status, Raised("HTTPException", detail, NoToken, ""), app)

\* AttributeType(value) of the Enum raises ValueError on any other string
IsAttributeType(value) == value \in {"integer", "float", "boolean", "string"}

NotAnAttributeType == Raised("ValueError", "is not a valid AttributeType", NoToken, "")

\* models.Attribute(...) from a request body, and AttributeDefinition(...) from
\* a row; allowed_values is written as the JSON list of the set and read back
\* as the set of that list, None when the set is empty
AttributeRow(name, attribute) ==
    [name |-> name, attr_type |-> attribute.attr_type,
     min_value |-> attribute.min_value, max_value |-> attribute.max_value,
     allowed_values |-> attribute.allowed_values]

DefinitionOf(name, attribute) ==
    AttributeDefinition(name, attribute.attr_type, attribute.min_value,
                        attribute.max_value, attribute.allowed_values)

\* `sub in text` on str
Contains(text, sub) ==
    \E i \in 1..(Len(text) - Len(sub) + 1) :
        SubSeq(text, i, i + Len(sub) - 1) = sub

\* the stored rules whose text contains attribute_name
RulesUsing(app, attribute_name) ==
    {r \in DOMAIN app.db_rules : Contains(app.db_rules[r], attribute_name)}

create_attribute(app, attribute) ==
    IF attribute.name \in DOMAIN app.db_attributes
    THEN {HTTPException(400, "Attribute already exists", app)}
    ELSE IF ~IsAttributeType(attribute.attr_type)
    THEN {Response(400, NotAnAttributeType, app)}
    ELSE
    LET out == add_attribute(app.attributes, DefinitionOf(attribute.name, attribute))
    IN  IF ~out.ok THEN {Response(400, out.err, app)}
        ELSE {Response(201, NoError,
                [app EXCEPT !.attributes = out.attributes,
                            !.db_attributes =
                                Put(@, attribute.name,
                                    AttributeRow(attribute.name, attribute))])}

\* update_attribute with the definition deleted before the rules are looked at
update_attribute_deleting_first(app, attribute_name, attribute) ==
    IF attribute_name \notin DOMAIN app.db_attributes
    THEN {HTTPException(404, "Attribute not found", app)}
    ELSE
    LET deleted == [app EXCEPT !.attributes = Remove(@, attribute_name)]
    IN  IF RulesUsing(app, attribute_name) # {}
        THEN {HTTPException(400, "Cannot update attribute used in rule", deleted)}
        ELSE IF ~IsAttributeType(attribute.attr_type)
        THEN {Response(400, NotAnAttributeType, deleted)}
        ELSE
        LET out == add_attribute(deleted.attributes,
                                 DefinitionOf(attribute_name, attribute))
        IN  IF ~out.ok THEN {Response(400, out.err, deleted)}
            ELSE {Response(200, NoError,
                    [deleted EXCEPT !.attributes = out.attributes,
                                    !.db_attributes =
                                        Put(@, attribute_name,
                                            AttributeRow(attribute_name, attribute))])}

update_attribute(app, attribute_name, attribute) ==
    IF attribute_name \notin DOMAIN app.db_attributes
    THEN {HTTPException(404, "Attribute not found", app)}
    ELSE IF RulesUsing(app, attribute_name) # {}
    THEN {HTTPException(400, "Cannot update attribute used in rule", app)}
    ELSE
    \* lines 89-90: the definition is deleted before the new one is built
    LET deleted == [app EXCEPT !.attributes = Remove(@, attribute_name)]
    IN  IF ~IsAttributeType(attribute.attr_type)
        THEN {Response(400, NotAnAttributeType, deleted)}
        ELSE
        LET out == add_attribute(deleted.attributes,
                                 DefinitionOf(attribute_name, attribute))
        IN  IF ~out.ok THEN {Response(400, out.err, deleted)}
            ELSE {Response(200, NoError,
                    [deleted EXCEPT !.attributes = out.attributes,
                                    !.db_attributes =
                                        Put(@, attribute_name,
                                            AttributeRow(attribute_name, attribute))])}

\* delete_attribute without its look at the stored rules
delete_attribute_unchecked(app, attribute_name) ==
    IF attribute_name \notin DOMAIN app.db_attributes
    THEN {HTTPException(404, "Attribute not found", app)}
    ELSE {Response(204, NoError,
            [app EXCEPT !.attributes = Remove(@, attribute_name),
                        !.db_attributes = Remove(@, attribute_name)])}

delete_attribute(app, attribute_name) ==
    IF attribute_name \notin DOMAIN app.db_attributes
    THEN {HTTPException(404, "Attribute not found", app)}
    ELSE IF RulesUsing(app, attribute_name) # {}
    THEN {HTTPException(400, "Cannot delete attribute used in rule", app)}
    ELSE {Response(204, NoError,
            [app EXCEPT !.attributes = Remove(@, attribute_name),
                        !.db_attributes = Remove(@, attribute_name)])}

\* core.rule_engine's module-level `catalog` and `rule_engine` as a process
\* starts: one AttributeCatalog() and one RuleEngine(catalog), both empty
Singletons == [attributes |-> EmptyMap, rules |-> EmptyMap]

\* The status of an exception raised by the engine under handlers that
\* catch the classes `caught`
StatusOf(err, caught) == IF err.exc \in caught THEN 400 ELSE 500

\* api.rules.create_rule
rules_create_rule(app, name, rule_str) ==
    IF name \in DOMAIN app.db_rules
    THEN {HTTPException(400, "Rule already exists", app)}
    ELSE {IF out.ok
          THEN Response(201, NoError,
                        [app EXCEPT !.rules = out.rules,
                                    !.db_rules = Put(@, name, rule_str)])
          ELSE Response(StatusOf(out.err, {"ParseError", "ValueError"}), out.err,
                        [app EXCEPT !.rules = out.rules]) :
            out \in create_rule(app.rules, app.attributes, name, rule_str)}

update_rule(app, rule_name, rule_str) ==
    IF rule_name \notin DOMAIN app.db_rules
    THEN {HTTPException(404, "Rule not found", app)}
    ELSE {IF out.ok
          THEN Response(200, NoError,
                        [app EXCEPT !.rules = out.rules,
                                    !.db_rules = Put(@, rule_name, rule_str)])
          ELSE Response(StatusOf(out.err, {"ParseError", "ValueError"}), out.err,
                        [app EXCEPT !.rules = out.rules]) :
            out \in modify_rule(app.rules, app.attributes, rule_name, rule_str)}

delete_rule(app, rule_name) ==
    IF rule_name \notin DOMAIN app.db_rules
    THEN {HTTPException(404, "Rule not found", app)}
    ELSE {Response(204, NoError,
            [app EXCEPT !.rules = Remove(@, rule_name),
                        !.db_rules = Remove(@, rule_name)])}

\* api.rules.combine_rules: the row holds the rule_str combine_rules built
rules_combine_rules(app, new_rule_name, rule_names, operator) ==
    IF new_rule_name \in DOMAIN app.db_rules
    THEN {HTTPException(400, "Rule with this name already exists", app)}
    ELSE {IF out.ok
          THEN Response(201, NoError,
                        [app EXCEPT !.rules = out.rules,
                                    !.db_rules = Put(@, new_rule_name,
                                        out.rules[new_rule_name].rule_str)])
          ELSE Response(StatusOf(out.err, {"ValueError"}), out.err,
                        [app EXCEPT !.rules = out.rules]) :
            out \in combine_rules(app.rules, app.attributes, new_rule_name,
                                  rule_names, operator)}

\* startup_db_client's first loop: add_attribute for every row not yet loaded,
\* in the order the query returns them; an exception ends the startup
RECURSIVE LoadAttributes(_, _, _)
LoadAttributes(rows, names, attributes) ==
    IF names = {} THEN {[ok |-> TRUE, attributes |-> attributes]}
    ELSE UNION {
            LET out == IF IsAttributeType(rows[n].attr_type)
                       THEN add_attribute(attributes, DefinitionOf(n, rows[n]))
                       ELSE [ok |-> FALSE, attributes |-> attributes]
            IN  IF out.ok
                THEN LoadAttributes(rows, names \ {n}, out.attributes)
                ELSE {[ok |-> FALSE, attributes |-> attributes]} :
            n \in names}

\* its second loop: create_rule for every row, a rule that raises is skipped
RECURSIVE LoadRules(_, _, _, _)
LoadRules(rows, names, attributes, rs) ==
    IF names = {} THEN {rs}
    ELSE LET n == CHOOSE n \in names : TRUE
         IN  UNION {LoadRules(rows, names \ {n}, attributes, out.rules) :
                        out \in create_rule(rs, attributes, n, rows[n])}

\* startup_db_client in a new process: the catalogs and rule maps it can leave
startup_db_client(app) ==
    UNION {
        IF loaded.ok
        THEN {[app EXCEPT !.attributes = loaded.attributes, !.rules = rs] :
                rs \in LoadRules(app.db_rules, DOMAIN app.db_rules,
                                 loaded.attributes, Singletons.rules)}
        ELSE {[app EXCEPT !.attributes = loaded.attributes,
                          !.rules = Singletons.rules]} :
        loaded \in LoadAttributes(app.db_attributes, DOMAIN app.db_attributes,
                                  Singletons.attributes)}

\* api.evaluation.evaluate_rule on the engine's rules: the responses
\* [status, result, err]
evaluate_rule(rs, attributes, rule_name, candidate) ==
    IF rule_name \notin DOMAIN rs
    THEN {[status |-> 404, result |-> FALSE,
           err |-> Raised("HTTPException", "Rule not found", NoToken, "")]}
    ELSE {IF out.ok
          THEN [status |-> 200, result |-> out.val, err |-> NoError]
          ELSE [status |-> StatusOf(out.err, {"ValueError"}), result |-> FALSE,
                err |-> out.err] :
            out \in evaluate(rs, attributes, rule_name, candidate)}

\* One entry of batch_evaluate's results
BatchResultItem(index, result, error) ==
    [index |-> index, result |-> result, error |-> error]

\* batch_evaluate's loop (lines 36-41) from the candidate of 0-based index i
\* with the results so far: an exception other than ValueError leaves the
\* loop and the handler
RECURSIVE BatchLoop(_, _, _, _, _, _)
BatchLoop(rs, attributes, rule_name, candidates, i, results) ==
    IF i >= Len(candidates)
    THEN {[status |-> 200, results |-> results, err |-> NoError]}
    ELSE UNION {
            IF out.ok
            THEN BatchLoop(rs, attributes, rule_name, candidates, i + 1,
                           Append(results, BatchResultItem(i, out.val, NoError)))
            ELSE IF out.err.exc = "ValueError"
            THEN BatchLoop(rs, attributes, rule_name, candidates, i + 1,
                           Append(results, BatchResultItem(i, FALSE, out.err)))
            ELSE {[status |-> 500, results |-> <<>>, err |-> out.err]} :
            out \in evaluate(rs, attributes, rule_name, Tok(candidates, i))}

batch_evaluate(rs, attributes, rule_name, candidates) ==
    IF rule_name \notin DOMAIN rs
    THEN {[status |-> 404, results |-> <<>>,
           err |-> Raised("HTTPException", "Rule not found", NoToken, "")]}
    ELSE BatchLoop(rs, attributes, rule_name, candidates, 0, <<>>)

(***************************************************************************)
(* Handler calls as actions                                                *)
(***************************************************************************)

\* The application state of the current state
App ==
    [attributes |-> catalog, rules |-> rules,
     db_attributes |-> db_attributes, db_rules |-> db_rules]

\* The state a response or a startup leaves
Becomes(app) ==
    /\ catalog' = app.attributes
    /\ rules' = app.rules
    /\ db_attributes' = app.db_attributes
    /\ db_rules' = app.db_rules
    /\ UNCHANGED requests

Succeeded(status) == status < 400

CreateAttribute(attribute) ==
    \E out \in create_attribute(App, attribute) :
        /\ Becomes(out.app)
        /\ last' = [op |-> "create_attribute", attribute_name |-> attribute.name,
                    attribute |-> attribute, status |-> out.status,
                    ok |-> Succeeded(out.status), err |-> out.err]

UpdateAttribute(attribute_name, attribute) ==
    \E out \in update_attribute(App, attribute_name, attribute) :
        /\ Becomes(out.app)
        /\ last' = [op |-> "update_attribute", attribute_name |-> attribute_name,
                    attribute |-> attribute, status |-> out.status,
                    ok |-> Succeeded(out.status), err |-> out.err]

DeleteAttribute(attribute_name) ==
    \E out \in delete_attribute(App, attribute_name) :
        /\ Becomes(out.app)
        /\ last' = [op |-> "delete_attribute", attribute_name |-> attribute_name,
                    status |-> out.status, ok |-> Succeeded(out.status),
                    err |-> out.err]

PostRule(name, rule_str) ==
    \E out \in rules_create_rule(App, name, rule_str) :
        /\ Becomes(out.app)
        /\ last' = [op |-> "rules.create_rule", name |-> name,
                    rule_str |-> rule_str, status |-> out.status,
                    ok |-> Succeeded(out.status), err |-> out.err]

UpdateRule(rule_name, rule_str) ==
    \E out \in update_rule(App, rule_name, rule_str) :
        /\ Becomes(out.app)
        /\ last' = [op |-> "update_rule", name |-> rule_name,
                    rule_str |-> rule_str, status |-> out.status,
                    ok |-> Succeeded(out.status), err |-> out.err]

DeleteRule(rule_name) ==
    \E out \in delete_rule(App, rule_name) :
        /\ Becomes(out.app)
        /\ last' = [op |-> "delete_rule", name |-> rule_name,
                    status |-> out.status, ok |-> Succeeded(out.status),
                    err |-> out.err]

PostCombine(new_rule_name, rule_names, operator) ==
    \E out \in rules_combine_rules(App, new_rule_name, rule_names, operator) :
        /\ Becomes(out.app)
        /\ last' = [op |-> "rules.combine_rules", name |-> new_rule_name,
                    rule_names |-> rule_names, operator |-> operator,
                    status |-> out.status, ok |-> Succeeded(out.status),
                    err |-> out.err]

\* The process ends and a new one runs startup_db_client on the tables
Startup ==
    \E app \in startup_db_client(App) :
        /\ Becomes(app)
        /\ last' = [op |-> "startup"]

BatchEvaluate(rule_name, candidates) ==
    \E out \in batch_evaluate(rules, catalog, rule_name, candidates) :
        /\ last' = [op |-> "batch_evaluate", name |-> rule_name,
                    candidates |-> candidates, status |-> out.status,
                    ok |-> Succeeded(out.status), results |-> out.results,
                    err |-> out.err]
        /\ UNCHANGED <<catalog, rules, outside>>

(***************************************************************************)
(* Inputs                                                                  *)
(***************************************************************************)

age     == <<"a", "g", "e">>
country == <<"c", "o", "u", "n", "t", "r", "y">>
bogus   == <<"b", "o", "g", "u", "s">>

EQ == <<"=">>
LT == <<"<">>
GT == <<">">>
LE == <<"<", "=">>
GE == <<">", "=">>

Lit18 == <<"1", "8">>
LitUs == <<"'", "u", "s", "'">>
US == <<"U", "S">>
CA == <<"C", "A">>

\* A text from its words, one blank between two words
Words(words) == Join(words, <<" ">>)

DefAge == AttributeDefinition(age, "integer", Some(0), Some(150), {})
DefCountry == AttributeDefinition(country, "string", NoneNum, NoneNum, {US, CA})
DefAgeAgain == AttributeDefinition(age, "float", NoneNum, Some(99), {})
DefBadRange == AttributeDefinition(bogus, "integer", Some(10), Some(5), {})
DefNoValues == AttributeDefinition(bogus, "string", NoneNum, NoneNum, {})
DefBoolMin == AttributeDefinition(bogus, "boolean", Some(0), NoneNum, {})

Definitions ==
    {DefAge, DefCountry, DefAgeAgain, DefBadRange, DefNoValues, DefBoolMin}

StdCatalog == [a \in {age, country} |-> IF a = age THEN DefAge ELSE DefCountry]

TxtAgeGt     == Words(<<age, GT, Lit18>>)
TxtAgeEq     == Words(<<age, EQ, Lit18>>)
TxtCountry   == Words(<<country, EQ, LitUs>>)
TxtInfix     == Words(<<age, GT, Lit18, kAND, country, EQ, LitUs>>)
TxtBogus     == Words(<<bogus, GT, <<"1">>>>)
TxtPrefix    == Words(<<kAND, age, GT, Lit18, country, EQ, LitUs>>)
TxtSameAttr  == Words(<<kAND, age, GT, Lit18, age, LT, Lit18>>)
TxtCountryAge == Words(<<country, EQ, age>>)

\* The texts handed to create_rule and modify_rule
RuleTexts ==
    {TxtAgeGt, TxtAgeEq, TxtCountry, TxtInfix, TxtBogus, TxtPrefix, TxtSameAttr}

\* Names given to created rules, and the name given to a combined rule
RuleNames == {"r1", "r2"}
CombinedName == "c"
AllNames == RuleNames \cup {CombinedName}

CombineOperators == { <<"a", "n", "d">>, <<"O", "R">>, <<"x", "o", "r">> }

\* rule_names of combine_rules: every sequence of PairLen names
PairLen == 2
RuleNameLists == [1..PairLen -> AllNames]

Cand(a, c) == [x \in {age, country} |-> IF x = age THEN IntVal(a) ELSE StrVal(c)]

Ages == {17, 18, 19}
Countries == {US, CA}

\* Candidates supplying every attribute of the catalog
FullCandidates == {Cand(a, c) : a \in Ages, c \in Countries}

\* Candidates of the engine specification
Candidates == {Cand(19, US), Cand(18, CA), Single(age, IntVal(17))}

(***************************************************************************)
(* Actions: one call of a method, recorded in `last`                       *)
(***************************************************************************)

\* Empty tables and no handler in flight
NothingOutside ==
    /\ db_attributes = EmptyMap
    /\ db_rules = EmptyMap
    /\ requests = EmptyMap

Init ==
    /\ catalog = EmptyMap
    /\ rules = EmptyMap
    /\ NothingOutside
    /\ last = [op |-> "init"]

AddAttribute(definition) ==
    LET out == add_attribute(catalog, definition)
    IN  /\ catalog' = out.attributes
        /\ last' = [op |-> "add_attribute", definition |-> definition,
                    ok |-> out.ok, err |-> out.err]
        /\ UNCHANGED <<rules, outside>>

CreateRule(name, rule_str) ==
    \E out \in create_rule(rules, catalog, name, rule_str) :
        /\ rules' = out.rules
        /\ last' = [op |-> "create_rule", name |-> name, rule_str |-> rule_str,
                    ok |-> out.ok, err |-> out.err]
        /\ UNCHANGED <<catalog, outside>>

ModifyRule(name, new_rule_str) ==
    \E out \in modify_rule(rules, catalog, name, new_rule_str) :
        /\ rules' = out.rules
        /\ last' = [op |-> "modify_rule", name |-> name,
                    rule_str |-> new_rule_str, ok |-> out.ok, err |-> out.err]
        /\ UNCHANGED <<catalog, outside>>

CombineRules(name, rule_names, operator) ==
    \E out \in combine_rules(rules, catalog, name, rule_names, operator) :
        /\ rules' = out.rules
        /\ last' = [op |-> "combine_rules", name |-> name,
                    rule_names |-> rule_names, operator |-> operator,
                    ok |-> out.ok, err |-> out.err]
        /\ UNCHANGED <<catalog, outside>>

Evaluate(rule_name, candidate) ==
    \E out \in evaluate(rules, catalog, rule_name, candidate) :
        /\ last' = [op |-> "evaluate", name |-> rule_name,
                    candidate |-> candidate, ok |-> out.ok,
                    val |-> IF out.ok THEN out.val ELSE FALSE,
                    err |-> IF out.ok THEN NoError ELSE out.err]
        /\ UNCHANGED <<catalog, rules, outside>>

Next ==
    \/ \E definition \in Definitions : AddAttribute(definition)
    \/ \E name \in RuleNames, rule_str \in RuleTexts : CreateRule(name, rule_str)
    \/ \E name \in RuleNames, rule_str \in RuleTexts : ModifyRule(name, rule_str)
    \/ \E rule_names \in RuleNameLists, operator \in CombineOperators :
            CombineRules(CombinedName, rule_names, operator)
    \/ \E name \in AllNames, candidate \in Candidates : Evaluate(name, candidate)

Spec == Init /\ [][Next]_vars

(***************************************************************************)
(* The pure functions, applied to bounded inputs                           *)
(***************************************************************************)

ParseRule(rule_str) ==
    LET out == parse_rule(rule_str)
    IN  /\ last' = [op |-> "parse_rule", rule_str |-> rule_str, ok |-> out.ok,
                    ast |-> IF out.ok THEN out.ast ELSE None,
                    err |-> IF out.ok THEN NoError ELSE out.err]
        /\ UNCHANGED <<catalog, rules, outside>>

TokenizeRule(rule) ==
    LET out == tokenize_rule(rule)
    IN  /\ last' = [op |-> "tokenize_rule", rule |-> rule, ok |-> out.ok,
                    tokens |-> IF out.ok THEN out.tokens ELSE <<>>,
                    err |-> IF out.ok THEN NoError ELSE out.err]
        /\ UNCHANGED <<catalog, rules, outside>>

\* Every text of at most MaxTextLen characters of TextChars
MaxTextLen == 5
TextChars == {"(", ")", "a", ">", " "}
TokenizerTexts == UNION {[1..n -> TextChars] : n \in 0..MaxTextLen}

\* The text a call is about to be given
Input(rule_str) == [op |-> "input", rule_str |-> rule_str]

InitTok ==
    /\ catalog = EmptyMap
    /\ rules = EmptyMap
    /\ NothingOutside
    /\ last \in {Input(rule) : rule \in TokenizerTexts}

NextTok == last.op = "input" /\ TokenizeRule(last.rule_str)

SpecTok == InitTok /\ [][NextTok]_vars

(***************************************************************************)
(* Texts derived from the grammar                                          *)
(*     expr      := term ( ('AND'|'OR') term )*                            *)
(*     term      := 'NOT'? ( condition | '(' expr ')' )                    *)
(*     condition := IDENT comparisonOp literal                             *)
(* A derivation is its words and the AST the grammar and the grouping rule *)
(* give it.                                                                *)
(***************************************************************************)

GCond(attribute, operator, literal) ==
    [words |-> <<attribute, operator, literal>>,
     tree  |-> condition(attribute, operator, ParseValue(literal), FALSE)]

GParen(g) == [words |-> <<LPAREN>> \o g.words \o <<RPAREN>>, tree |-> g.tree]

\* NOT inverts the node it is attached to
GNot(g) ==
    [words |-> <<kNOT>> \o g.words,
     tree  |-> [g.tree EXCEPT !.invertion = ~@]]

\* The grouping rule on terms[i..] with the connectives conns[i-1..]: a
\* connective that differs from the current node's wraps the current node
RECURSIVE FoldFrom(_, _, _, _)
FoldFrom(terms, conns, i, current) ==
    IF i > Len(terms) THEN current
    ELSE IF current.operator = Lower(conns[i - 1])
    THEN FoldFrom(terms, conns, i + 1, Add(current, terms[i].tree))
    ELSE FoldFrom(terms, conns, i + 1,
                  operation(Lower(conns[i - 1]), {current, terms[i].tree}, FALSE))

\* terms[1] conns[1] terms[2] ... conns[n-1] terms[n], n >= 2
GFold(terms, conns) ==
    [words |-> Join([i \in 1..Len(terms) |->
                        IF i = 1 THEN terms[i].words
                        ELSE <<conns[i - 1]>> \o terms[i].words], <<>>),
     tree  |-> FoldFrom(terms, conns, 3,
                        operation(Lower(conns[1]),
                                  {terms[1].tree, terms[2].tree}, FALSE))]

Lit1 == <<"1">>

Conditions ==
    {GCond(age, operator, Lit18) : operator \in VALID_OPERATORS}
        \cup {GCond(country, EQ, LitUs), GCond(bogus, GT, Lit1)}

\* A single term: condition, NOT condition, ( condition ), NOT ( condition )
SingleTerms ==
    Conditions \cup {GNot(g) : g \in Conditions}
        \cup {GParen(g) : g \in Conditions}
        \cup {GNot(GParen(g)) : g \in Conditions}

\* Terms joined by connectives: from 2 to MaxTerms conditions of FoldConditions
MaxTerms == 3
FoldConditions ==
    {GCond(age, GT, Lit18), GCond(country, EQ, LitUs), GCond(age, EQ, Lit18),
     GCond(bogus, GT, Lit1)}

Folds ==
    UNION {{GFold(terms, conns) :
                terms \in [1..n -> FoldConditions],
                conns \in [1..(n - 1) -> {kAND, kOR}]} : n \in 2..MaxTerms}

\* NOT ( expr ) over an expr of two terms
NotParenFolds == {GNot(GParen(g)) : g \in {f \in Folds : Len(f.words) = 7}}

Derivations == SingleTerms \cup Folds \cup NotParenFolds

TextOf(g) == Words(g.words)

\* Texts the grammar does not derive
OtherTexts ==
    {TxtPrefix, TxtSameAttr,
     Words(<<kAND, age, GT, Lit18, age, GT, Lit18>>),
     Words(<<kOR, kNOT, age, GE, Lit18, LPAREN, kAND, age, GE, Lit18, RPAREN>>),
     Words(<<kAND>>),
     Words(<<age, GT>>),
     Words(<<LPAREN, age, GT, Lit18>>),
     Words(<<kOR>>),
     Words(<<kAND, kAND>>),
     Words(<<kOR, kAND, age, GT, Lit18>>),
     Words(<<kNOT>>),
     Words(<<kAND, kNOT>>),
     Words(<<kNOT, kAND, GT, Lit18>>),
     Words(<<GT, GT, Lit18>>),
     Words(<<age, <<"x">>, Lit18>>),
     Words(<<age, GT, Lit18, age>>),
     Words(<<age, GT, Lit18, kAND>>)}

\* Conditions whose literal is not of the attribute's type
MismatchTexts == {Words(<<age, EQ, LitUs>>), Words(<<country, GT, Lit18>>)}

EvalTexts == {TextOf(g) : g \in Derivations} \cup OtherTexts \cup MismatchTexts

\* Candidates whose values the catalog's definitions do not admit, and one
\* with a key that names no attribute of the catalog
OddCandidates ==
    {[Cand(18, US) EXCEPT ![age] = BoolVal(TRUE)],
     [Cand(18, US) EXCEPT ![age] = StrVal(US)],
     [Cand(18, US) EXCEPT ![country] = IntVal(18)],
     Cand(200, US),
     Cand(19, <<"F", "R">>),
     Put(Cand(19, US), bogus, IntVal(200))}

EvalCandidates == FullCandidates \cup {Single(age, IntVal(17))} \cup OddCandidates

EvalName == "r"

\* The candidates lists of batch_evaluate: every list of BatchLen candidates
BatchLen == 2
BatchCandidates ==
    {Cand(19, US), Cand(18, CA), Cand(200, US), Single(country, StrVal(US))}
BatchLists == [1..BatchLen -> BatchCandidates]

InitEval ==
    /\ catalog = StdCatalog
    /\ rules = EmptyMap
    /\ NothingOutside
    /\ last \in {Input(rule_str) : rule_str \in EvalTexts}

NextEval ==
    \/ last.op = "input" /\ ParseRule(last.rule_str)
    \/ last.op = "input" /\ CreateRule(EvalName, last.rule_str)
    \/ /\ last.op \in {"create_rule", "evaluate"}
       /\ \E candidate \in EvalCandidates : Evaluate(EvalName, candidate)
    \/ /\ last.op = "create_rule"
       /\ \E candidates \in BatchLists : BatchEvaluate(EvalName, candidates)

SpecEval == InitEval /\ [][NextEval]_vars

(***************************************************************************)
(* Properties                                                              *)
(***************************************************************************)

NameTaken == last.err.message = "Rule already exists"

AND_OR == { <<"a", "n", "d">>, <<"o", "r">> }

\* value `operator` k: = between strings ignores case, native order otherwise
Satisfies(operator, x, k) ==
    CASE operator = EQ ->
            IF k.t = "str" THEN Lower(x.s) = Lower(k.s) ELSE x.i = k.i
      [] operator = LT -> x.i < k.i
      [] operator = GT -> x.i > k.i
      [] operator = LE -> x.i <= k.i
      [] operator = GE -> x.i >= k.i

\* C1: a rule created from the single condition `a op k` evaluates to true
\* exactly when the candidate's value for a satisfies `value op k`
C1_SingleConditionVerdict ==
    \A g \in Conditions :
        (/\ last.op = "evaluate"
         /\ EvalName \in DOMAIN rules
         /\ rules[EvalName].rule_str = TextOf(g)
         /\ g.tree.attribute \in DOMAIN last.candidate)
        => /\ last.ok
           /\ last.val = Satisfies(g.tree.operator,
                                   last.candidate[g.tree.attribute],
                                   g.tree.value)

RECURSIVE ConditionNodes(_)
ConditionNodes(node) ==
    IF node.kind = "condition" THEN {node}
    ELSE UNION {ConditionNodes(child) : child \in node.children}

OneConditionPerAttribute(ast) ==
    \A c1, c2 \in ConditionNodes(ast) : c1.attribute = c2.attribute => c1 = c2

\* C2: for a rule with at most one condition per attribute and a candidate
\* supplying every referenced attribute, the decision tree returns what the
\* AST evaluates to
C2_TreeAgreesWithAst ==
    (/\ last.op = "evaluate"
     /\ EvalName \in DOMAIN rules
     /\ OneConditionPerAttribute(rules[EvalName].ast)
     /\ ConditionAttributes(rules[EvalName].ast) \subseteq DOMAIN last.candidate)
    => LET direct == ast_eval(rules[EvalName].ast, last.candidate)
       IN  /\ last.ok = direct.ok
           /\ direct.ok => last.val = direct.val

\* The verdict of evaluate(name, candidate) in the current state
Verdict(name, candidate) ==
    CHOOSE out \in evaluate(rules, catalog, name, candidate) : TRUE

\* C3: combining two stored rules under a free name with and/or succeeds, and
\* the combined rule evaluates every candidate to the conjunction/disjunction
\* of the two rules' verdicts
C3_CombineIsConnective ==
    (/\ last.op = "combine_rules"
     /\ Lower(last.operator) \in AND_OR
     /\ ~NameTaken
     /\ \A i \in 1..Len(last.rule_names) : last.rule_names[i] \in DOMAIN rules)
    => /\ last.ok
       /\ \A candidate \in FullCandidates :
            LET c  == Verdict(last.name, candidate)
                r1 == Verdict(last.rule_names[1], candidate)
                r2 == Verdict(last.rule_names[2], candidate)
            IN  /\ c.ok /\ r1.ok /\ r2.ok
                /\ c.val = IF Lower(last.operator) = <<"a", "n", "d">>
                           THEN r1.val /\ r2.val
                           ELSE r1.val \/ r2.val

\* C4: create_rule under an unused name succeeds and stores the rule for every
\* text the grammar derives whose attributes are all in the catalog
C4_GrammarTextsAccepted ==
    \A g \in Derivations :
        (/\ last.op = "create_rule"
         /\ last.rule_str = TextOf(g)
         /\ ConditionAttributes(g.tree) \subseteq DOMAIN catalog
         /\ ~NameTaken)
        => /\ last.ok
           /\ last.name \in DOMAIN rules
           /\ rules[last.name].rule_str = last.rule_str

\* The expressions put between NOT ( and )
Negated == Conditions \cup {f \in Folds : Len(f.words) = 7}

\* C5: NOT ( expr ) is accepted and evaluates to the negation of expr
C5_NotParenNegates ==
    \A g \in Negated :
        LET text == TextOf(GNot(GParen(g)))
        IN  /\ (/\ last.op = "create_rule"
                /\ last.rule_str = text
                /\ ConditionAttributes(g.tree) \subseteq DOMAIN catalog
                /\ ~NameTaken)
               => last.ok
            /\ (/\ last.op = "evaluate"
                /\ EvalName \in DOMAIN rules
                /\ rules[EvalName].rule_str = text
                /\ ConditionAttributes(g.tree) \subseteq DOMAIN last.candidate)
               => /\ last.ok
                  /\ last.val = ~ast_eval(g.tree, last.candidate).val

\* C6: terms joined by connectives parse by the left-to-right grouping rule;
\* `a AND b OR c` parses to OR{AND{a, b}, c}
C6_LeftToRightFold ==
    \A g \in Folds :
        (last.op = "parse_rule" /\ last.rule_str = TextOf(g))
        => (last.ok /\ last.ast = g.tree)

\* C7: a modify_rule of a stored name that raises leaves the name absent and
\* every other rule unchanged; a modify_rule of a name that is not stored
\* raises and leaves the rule map unchanged
C7_ModifyNotAtomic ==
    [][last'.op = "modify_rule" =>
        IF last'.name \in DOMAIN rules
        THEN ~last'.ok => rules' = Remove(rules, last'.name)
        ELSE ~last'.ok /\ rules' = rules]_vars

\* a modify_rule of a stored rule raised ParseError; the name is gone and
\* another rule is still stored
C7_Witness ==
    /\ last.op = "modify_rule"
    /\ ~last.ok
    /\ last.err.exc = "ParseError"
    /\ last.name \notin DOMAIN rules
    /\ DOMAIN rules # {}

\* C8: a create_rule, combine_rules or add_attribute that raises leaves the
\* rule map and the catalog as they were
C8_FailedMutationKeepsState ==
    [][(last'.op \in {"create_rule", "combine_rules", "add_attribute"}
            /\ ~last'.ok)
        => (rules' = rules /\ catalog' = catalog)]_vars

\* combine_rules raised on the second of its rule_names, the first being stored
C8_Witness ==
    /\ last.op = "combine_rules"
    /\ ~last.ok
    /\ last.err.message = "Rule does not exist"
    /\ last.rule_names[1] \in DOMAIN rules
    /\ last.err.rule = last.rule_names[2]

\* C9: create_rule on a text the grammar derives that names an attribute not
\* in the catalog raises ValueError naming such an attribute
C9_UnknownAttributeNamed ==
    \A g \in Derivations :
        (/\ last.op = "create_rule"
         /\ last.rule_str = TextOf(g)
         /\ ~(ConditionAttributes(g.tree) \subseteq DOMAIN catalog)
         /\ ~NameTaken)
        => /\ ~last.ok
           /\ last.err.exc = "ValueError"
           /\ last.err.message = "Unknown attribute in rule"
           /\ last.err.token \in ConditionAttributes(g.tree) \ DOMAIN catalog

\* Opening minus closing parentheses among the first k tokens
Depth(tokens, k) ==
    Cardinality({i \in 1..k : tokens[i] = LPAREN})
        - Cardinality({i \in 1..k : tokens[i] = RPAREN})

\* C10: the first `)` without an earlier matching `(` raises ParseError at its
\* 0-based token position; parentheses that never go negative but end open
\* raise ParseError at the position of the last token; balanced ones pass
C10_ParenthesisBalance ==
    last.op = "tokenize_rule" =>
        LET tokens == Split(SubOperators(SubParens(last.rule)))
            n      == Len(tokens)
            stray  == {k \in 1..n : Depth(tokens, k) < 0}
        IN  IF n = 0 THEN ~last.ok
            ELSE IF stray # {}
            THEN LET first == CHOOSE k \in stray : \A j \in stray : k <= j
                 IN  /\ ~last.ok
                     /\ last.err = ParseError("Unmatched closing parenthesis",
                                              first - 1, RPAREN)
            ELSE IF Depth(tokens, n) > 0
            THEN /\ ~last.ok
                 /\ last.err = ParseError("Unmatched opening parenthesis",
                                          n - 1, NoToken)
            ELSE last.ok /\ last.tokens = tokens

\* a stray `)` after at least one token was reported
C10_Witness ==
    /\ last.op = "tokenize_rule"
    /\ ~last.ok
    /\ last.err.message = "Unmatched closing parenthesis"
    /\ last.err.position >= 1

(***************************************************************************)
(* A recognizer of the grammar on token sequences.  IDENT is a token that  *)
(* is no keyword, comparison operator or parenthesis; a literal is a token *)
(* that is no comparison operator or parenthesis.                          *)
(***************************************************************************)

IsIdent(token) ==
    token \notin VALID_OPERATORS \cup VALID_LOGICAL_OPERATORS \cup {LPAREN, RPAREN}

IsLiteral(token) == token \notin VALID_OPERATORS \cup {LPAREN, RPAREN}

RECURSIVE TermEnds(_, _)
RECURSIVE ExprEnds(_, _)

\* The positions at which a term that starts at pos can end
TermEnds(tokens, pos) ==
    LET p == IF pos < Len(tokens) /\ Tok(tokens, pos) = kNOT THEN pos + 1 ELSE pos
    IN  IF p >= Len(tokens) THEN {}
        ELSE IF Tok(tokens, p) = LPAREN
        THEN {e + 1 : e \in {x \in ExprEnds(tokens, p + 1) :
                                x < Len(tokens) /\ Tok(tokens, x) = RPAREN}}
        ELSE IF /\ p + 2 < Len(tokens)
                /\ IsIdent(Tok(tokens, p))
                /\ Tok(tokens, p + 1) \in VALID_OPERATORS
                /\ IsLiteral(Tok(tokens, p + 2))
        THEN {p + 3}
        ELSE {}

\* The positions at which an expr that starts at pos can end
ExprEnds(tokens, pos) ==
    UNION {{e} \cup (IF e < Len(tokens) /\ Tok(tokens, e) \in {kAND, kOR}
                     THEN ExprEnds(tokens, e + 1) ELSE {}) :
            e \in TermEnds(tokens, pos)}

Derivable(tokens) == Len(tokens) \in ExprEnds(tokens, 0)

\* C11: parse_rule raises ParseError on every text whose token sequence the
\* grammar does not derive
C11_NonGrammarRejected ==
    (/\ last.op = "parse_rule"
     /\ ~Derivable(Split(SubOperators(SubParens(last.rule_str)))))
    => (~last.ok /\ last.err.exc = "ParseError")

(***************************************************************************)
(* The handlers that change state, called one at a time, and restarts     *)
(***************************************************************************)

DefBadType == AttributeDefinition(bogus, "number", NoneNum, NoneNum, {})

\* Bodies of POST /api/attributes and of PUT /api/attributes/{name}
CreateBodies == {DefAge, DefCountry, DefBoolMin, DefBadType}
UpdateBodies == {DefAgeAgain, DefBadRange}
AttributeNames == {age, country}

\* Rule texts of POST and PUT /api/rules, and the lists of POST /combine
ApiRuleTexts == {TxtAgeGt, TxtCountryAge, TxtInfix}
ApiRuleNames == {"r1", "r2"}
ApiNameLists == { <<"r1", "r1">>, <<"r1", "r2">> }

InitApi ==
    /\ catalog = Singletons.attributes
    /\ rules = Singletons.rules
    /\ NothingOutside
    /\ last = [op |-> "startup"]

NextApi ==
    \/ \E attribute \in CreateBodies : CreateAttribute(attribute)
    \/ \E attribute_name \in AttributeNames, attribute \in UpdateBodies :
            UpdateAttribute(attribute_name, attribute)
    \/ \E attribute_name \in AttributeNames : DeleteAttribute(attribute_name)
    \/ \E name \in ApiRuleNames, rule_str \in ApiRuleTexts : PostRule(name, rule_str)
    \/ \E name \in ApiRuleNames, rule_str \in ApiRuleTexts : UpdateRule(name, rule_str)
    \/ \E name \in ApiRuleNames \cup {CombinedName} : DeleteRule(name)
    \/ \E rule_names \in ApiNameLists, operator \in CombineOperators :
            PostCombine(CombinedName, rule_names, operator)
    \/ Startup

SpecApi == InitApi /\ [][NextApi]_vars

\* The catalog holds, under each name, a definition of that name that
\* add_attribute's conditions accept
ValidDefinition(definition) ==
    /\ definition.attr_type \in {"integer", "float"}
        => ~(/\ definition.min_value.some /\ definition.max_value.some
             /\ definition.min_value.v > definition.max_value.v)
    /\ definition.attr_type = "string" => definition.allowed_values # {}
    /\ definition.attr_type = "boolean"
        => ~definition.min_value.some /\ ~definition.max_value.some

CatalogValid ==
    \A name \in DOMAIN catalog :
        catalog[name].name = name /\ ValidDefinition(catalog[name])

OfDeclaredType(definition, value) ==
    CASE definition.attr_type = "integer" -> value.t = "int"
      [] definition.attr_type = "float"   -> value.t = "int"
      [] definition.attr_type = "boolean" -> value.t = "bool"
      [] definition.attr_type = "string"  -> value.t = "str"

Admissible(definition, value) ==
    /\ OfDeclaredType(definition, value)
    /\ definition.attr_type \in {"integer", "float"} =>
            /\ definition.min_value.some => value.i >= definition.min_value.v
            /\ definition.max_value.some => value.i <= definition.max_value.v
    /\ definition.attr_type = "string" => value.s \in definition.allowed_values

InvalidKeys(candidate) ==
    {a \in DOMAIN candidate \cap DOMAIN catalog :
        ~Admissible(catalog[a], candidate[a])}

\* The candidate without the keys that name no attribute of the catalog
KnownPart(candidate) ==
    [a \in DOMAIN candidate \cap DOMAIN catalog |-> candidate[a]]

\* C13: evaluate on a stored rule raises the invalid-value error exactly when
\* some key of the candidate that names a catalog attribute carries a value
\* the definition does not admit, and names such a key; keys that name no
\* catalog attribute change nothing of the outcome
C13_InvalidValueExactly ==
    (last.op = "evaluate" /\ last.name \in DOMAIN rules)
    => /\ (~last.ok /\ last.err.message = "Invalid value for attribute")
            <=> InvalidKeys(last.candidate) # {}
       /\ InvalidKeys(last.candidate) # {}
            => last.err.token \in InvalidKeys(last.candidate)
       /\ \E out \in evaluate(rules, catalog, last.name, KnownPart(last.candidate)) :
            /\ out.ok = last.ok
            /\ out.ok => out.val = last.val
            /\ ~out.ok => out.err = last.err

\* C14: batch_evaluate on a stored rule returns status 200 with one entry per
\* candidate, entry i (counted from 0) for the i-th candidate in input order:
\* the verdict with no error when evaluating that candidate succeeds, the
\* error it raised otherwise
C14_BatchIsolatesErrors ==
    (last.op = "batch_evaluate" /\ last.name \in DOMAIN rules)
    => /\ last.status = 200
       /\ Len(last.results) = Len(last.candidates)
       /\ \A k \in 1..Len(last.candidates) :
            /\ last.results[k].index = k - 1
            /\ \E out \in evaluate(rules, catalog, last.name, last.candidates[k]) :
                IF out.ok
                THEN last.results[k] = BatchResultItem(k - 1, out.val, NoError)
                ELSE last.results[k] = BatchResultItem(k - 1, FALSE, out.err)

\* C15: an update or delete of a stored attribute whose name occurs in the
\* text of some stored rule is refused with status 400 and changes neither
\* the catalog nor the attribute rows (nor the rules)
C15_UsedAttributeKept ==
    [][(/\ last'.op \in {"update_attribute", "delete_attribute"}
        /\ last'.attribute_name \in DOMAIN db_attributes
        /\ \E r \in DOMAIN db_rules :
                Contains(db_rules[r], last'.attribute_name))
       => (/\ last'.status = 400
           /\ last'.err.exc = "HTTPException"
           /\ catalog' = catalog
           /\ db_attributes' = db_attributes
           /\ rules' = rules
           /\ db_rules' = db_rules)]_vars

\* an update of `age` was refused although no rule of the engine has a
\* condition on it: a stored text holds the name as a literal
C15_Witness ==
    /\ last.op = "update_attribute"
    /\ last.attribute_name = age
    /\ last.status = 400
    /\ age \in DOMAIN catalog
    /\ \E r \in DOMAIN db_rules : Contains(db_rules[r], age)
    /\ \A r \in DOMAIN rules : age \notin ConditionAttributes(rules[r].ast)

(***************************************************************************)
(* Two handlers in flight at once: PUT /api/rules/{name} and               *)
(* POST /api/evaluation/{name}.  The handlers are plain functions, run on  *)
(* worker threads with no lock; a step is one access to the shared rule    *)
(* map, catalog or table, with what the thread computes on its own up to   *)
(* its next access.  requests[id] holds a handler's position and locals.   *)
(***************************************************************************)

Writer == "update_rule"
Reader == "evaluate_rule"

ConcTexts == {TxtAgeGt, TxtAgeEq, TxtCountry}
ConcCandidates == {Cand(19, US), Cand(18, CA), Single(country, StrVal(US))}

\* The handler `id` moves to position pc with the locals `locals` changed
Goto(id, pc, locals) ==
    requests' = Put(requests, id, [k \in DOMAIN requests[id] \cup DOMAIN locals \cup {"pc"} |->
                                        IF k = "pc" THEN pc
                                        ELSE IF k \in DOMAIN locals THEN locals[k]
                                        ELSE requests[id][k]])

At(id, pc) == id \in DOMAIN requests /\ requests[id].pc = pc

\* The handler `id` ends with a response
Respond(id, status, result, err) ==
    /\ requests' = Remove(requests, id)
    /\ last' = [op |-> id, name |-> requests[id].rule_name, status |-> status,
                ok |-> Succeeded(status), result |-> result, err |-> err]

\* A rule stored through the handlers, and its row
InitConc ==
    /\ catalog = StdCatalog
    /\ \E out \in create_rule(Singletons.rules, StdCatalog, EvalName, TxtAgeEq) :
            out.ok /\ rules = out.rules
    /\ db_attributes = [a \in DOMAIN StdCatalog |-> AttributeRow(a, StdCatalog[a])]
    /\ db_rules = [n \in {EvalName} |-> TxtAgeEq]
    /\ requests = EmptyMap
    /\ last = [op |-> "startup"]

BeginUpdate(rule_name, rule_str) ==
    /\ Writer \notin DOMAIN requests
    /\ requests' = Put(requests, Writer,
                       [pc |-> "query", rule_name |-> rule_name,
                        rule_str |-> rule_str])
    /\ UNCHANGED <<catalog, rules, last, db_attributes, db_rules>>

\* update_rule lines 70-72
UpdateQuery ==
    /\ At(Writer, "query")
    /\ IF requests[Writer].rule_name \notin DOMAIN db_rules
       THEN Respond(Writer, 404, FALSE,
                    Raised("HTTPException", "Rule not found", NoToken, ""))
       ELSE Goto(Writer, "modify_rule", EmptyMap) /\ UNCHANGED last
    /\ UNCHANGED <<catalog, rules, db_attributes, db_rules>>

\* modify_rule lines 419-420
ModifyCheck ==
    /\ At(Writer, "modify_rule")
    /\ IF requests[Writer].rule_name \notin DOMAIN rules
       THEN Respond(Writer, 400, FALSE,
                    Raised("ValueError", "Rule does not exist", NoToken,
                           requests[Writer].rule_name))
       ELSE Goto(Writer, "pop", EmptyMap) /\ UNCHANGED last
    /\ UNCHANGED <<catalog, rules, db_attributes, db_rules>>

\* modify_rule line 422: self.rules.pop(name)
ModifyPop ==
    /\ At(Writer, "pop")
    /\ rules' = Remove(rules, requests[Writer].rule_name)
    /\ Goto(Writer, "create_rule", EmptyMap)
    /\ UNCHANGED <<catalog, last, db_attributes, db_rules>>

\* create_rule lines 393-413: the name check, parse, validation and
\* compilation, up to the Rule object
CreateBuild ==
    /\ At(Writer, "create_rule")
    /\ \E out \in create_rule(rules, catalog, requests[Writer].rule_name,
                              requests[Writer].rule_str) :
        IF out.ok
        THEN /\ Goto(Writer, "store",
                     [rule |-> out.rules[requests[Writer].rule_name]])
             /\ UNCHANGED last
        ELSE Respond(Writer, StatusOf(out.err, {"ParseError", "ValueError"}),
                     FALSE, out.err)
    /\ UNCHANGED <<catalog, rules, db_attributes, db_rules>>

\* create_rule line 415: self.rules[name] = rule
CreateStore ==
    /\ At(Writer, "store")
    /\ rules' = Put(rules, requests[Writer].rule_name, requests[Writer].rule)
    /\ Goto(Writer, "commit", EmptyMap)
    /\ UNCHANGED <<catalog, last, db_attributes, db_rules>>

\* update_rule lines 79-82
UpdateCommit ==
    /\ At(Writer, "commit")
    /\ db_rules' = Put(db_rules, requests[Writer].rule_name,
                       requests[Writer].rule_str)
    /\ Respond(Writer, 200, FALSE, NoError)
    /\ UNCHANGED <<catalog, rules, db_attributes>>

BeginEvaluate(rule_name, candidate) ==
    /\ Reader \notin DOMAIN requests
    /\ requests' = Put(requests, Reader,
                       [pc |-> "found", rule_name |-> rule_name,
                        candidate |-> candidate])
    /\ UNCHANGED <<catalog, rules, last, db_attributes, db_rules>>

\* evaluate_rule lines 16-17
HandlerCheck ==
    /\ At(Reader, "found")
    /\ IF requests[Reader].rule_name \notin DOMAIN rules
       THEN Respond(Reader, 404, FALSE,
                    Raised("HTTPException", "Rule not found", NoToken, ""))
       ELSE Goto(Reader, "evaluate", EmptyMap) /\ UNCHANGED last
    /\ UNCHANGED <<catalog, rules, db_attributes, db_rules>>

\* evaluate lines 453-454
EngineCheck ==
    /\ At(Reader, "evaluate")
    /\ IF requests[Reader].rule_name \notin DOMAIN rules
       THEN Respond(Reader, 400, FALSE,
                    Raised("ValueError", "Rule does not exist", NoToken,
                           requests[Reader].rule_name))
       ELSE Goto(Reader, "validate", EmptyMap) /\ UNCHANGED last
    /\ UNCHANGED <<catalog, rules, db_attributes, db_rules>>

\* evaluate lines 457-460
ValidateCandidate ==
    /\ At(Reader, "validate")
    /\ LET candidate == requests[Reader].candidate
           invalid == {a \in DOMAIN candidate :
                            /\ a \in DOMAIN catalog
                            /\ ~validate_value(catalog, a, candidate[a])}
       IN  IF invalid # {}
           THEN \E a \in invalid :
                    Respond(Reader, 400, FALSE,
                            Raised("ValueError", "Invalid value for attribute", a, ""))
           ELSE Goto(Reader, "decision_tree", EmptyMap) /\ UNCHANGED last
    /\ UNCHANGED <<catalog, rules, db_attributes, db_rules>>

\* evaluate line 463: self.rules[rule_name].decision_tree
ReadTree ==
    /\ At(Reader, "decision_tree")
    /\ IF requests[Reader].rule_name \notin DOMAIN rules
       THEN Respond(Reader, 500, FALSE,
                    Raised("KeyError", "", NoToken, requests[Reader].rule_name))
       ELSE /\ Goto(Reader, "walk",
                    [current_node |->
                        rules[requests[Reader].rule_name].decision_tree])
            /\ UNCHANGED last
    /\ UNCHANGED <<catalog, rules, db_attributes, db_rules>>

\* evaluate lines 464-466 on the tree read, and evaluate_rule lines 21-23
WalkAndReturn ==
    /\ At(Reader, "walk")
    /\ LET out == WalkTree(requests[Reader].current_node,
                           requests[Reader].candidate)
       IN  IF out.ok THEN Respond(Reader, 200, out.val, NoError)
           ELSE Respond(Reader, StatusOf(out.err, {"ValueError"}), FALSE, out.err)
    /\ UNCHANGED <<catalog, rules, db_attributes, db_rules>>

NextConc ==
    \/ \E rule_str \in ConcTexts : BeginUpdate(EvalName, rule_str)
    \/ UpdateQuery
    \/ ModifyCheck
    \/ ModifyPop
    \/ CreateBuild
    \/ CreateStore
    \/ UpdateCommit
    \/ \E candidate \in ConcCandidates : BeginEvaluate(EvalName, candidate)
    \/ HandlerCheck
    \/ EngineCheck
    \/ ValidateCandidate
    \/ ReadTree
    \/ WalkAndReturn

SpecConc == InitConc /\ [][NextConc]_vars

\* The responses evaluate_rule gives for the candidate on the rule compiled
\* from one of the texts
ResponsesOn(rule_str, candidate) ==
    UNION {evaluate_rule(out.rules, catalog, EvalName, candidate) :
            out \in {o \in create_rule(Singletons.rules, catalog, EvalName, rule_str) :
                        o.ok}}

\* C16: with every update's text valid, an evaluate_rule of the rule that runs
\* alongside the updates answers as the old or the new complete tree answers:
\* it never finds the rule missing
C16_EvaluateSeesOldOrNew ==
    last.op = Reader =>
        /\ last.err.exc # "KeyError"
        /\ last.status # 404
        /\ last.err.message # "Rule does not exist"
        /\ \E rule_str \in ConcTexts, candidate \in ConcCandidates :
            \E out \in ResponsesOn(rule_str, candidate) :
                /\ out.status = last.status
                /\ out.result = last.result
                /\ out.err = last.err

\* C17: after a startup and any handler calls made one at a time, every
\* condition in the AST of every rule of the engine names an attribute of the
\* catalog
C17_ReferentialIntegrity ==
    \A r \in DOMAIN rules : ConditionAttributes(rules[r].ast) \subseteq DOMAIN catalog

\* an attribute was deleted while the engine holds a rule with a condition on
\* another attribute
C17_Witness ==
    /\ last.op = "delete_attribute"
    /\ last.ok
    /\ \E r \in DOMAIN rules : ConditionAttributes(rules[r].ast) # {}

\* C18: a startup brings back every rule that the engine held and the rule
\* table holds, and the rule evaluates every candidate as before the restart
C18_ReplayRestoresRules ==
    [][last'.op = "startup"
       => \A n \in DOMAIN rules \cap DOMAIN db_rules :
            /\ n \in DOMAIN rules'
            /\ \A candidate \in FullCandidates :
                evaluate(rules', catalog', n, candidate)
                    = evaluate(rules, catalog, n, candidate)]_vars

\* C19: after handler calls made one at a time the engine's rule names are
\* the rule table's names and the catalog's attribute names are the attribute
\* table's names, and a refused request changes neither memory nor tables
C19_MemoryMirrorsStore ==
    /\ [](DOMAIN rules = DOMAIN db_rules /\ DOMAIN catalog = DOMAIN db_attributes)
    /\ [][(last'.op # "startup" /\ ~last'.ok)
          => (/\ rules' = rules /\ catalog' = catalog
              /\ db_rules' = db_rules /\ db_attributes' = db_attributes)]_vars

====
